---- MODULE Spec2Model ----
(***************************************************************************)
(* SchedulingApp: two standalone Express scripts that load schedule.xlsx   *)
(* into the process-wide scheduleData table and answer GET /schedule.      *)
(*   variant "A" (strict)     : src/unnamed/part_000  (upload, async fs)   *)
(*   variant "B" (permissive) : src/server.js         (sync fs, grouping)  *)
(* Text is modelled as sequences of one-character strings, JavaScript      *)
(* values as tagged records, the spreadsheet on disk as a file record.     *)
(***************************************************************************)
EXTENDS Integers, Sequences, FiniteSets

(* ---------------------------------------------------------------- bounds *)
MaxNameLen == 2        \* longest ?name= text that is enumerated
MaxRows == 2           \* most data rows in an enumerated workbook
MaxClock == 2          \* last value of the wall clock

(* ------------------------------------------------------ JavaScript values *)
Str(s) == [t |-> "string", s |-> s, n |-> 0]
Num(n) == [t |-> "number", s |-> <<>>, n |-> n]
Undef == [t |-> "undefined", s |-> <<>>, n |-> 0]

DigitChar(d) == <<"0", "1", "2", "3", "4", "5", "6", "7", "8", "9">>[d + 1]

RECURSIVE Digits(_)
Digits(n) == IF n < 10 THEN <<DigitChar(n)>> ELSE Digits(n \div 10) \o <<DigitChar(n % 10)>>

\* String(v)
JsString(v) ==
  CASE v.t = "string" -> v.s
    [] v.t = "number" -> Digits(v.n)
    [] OTHER -> <<"u", "n", "d", "e", "f", "i", "n", "e", "d">>

\* the truthiness test behind v || d
Truthy(v) ==
  CASE v.t = "string" -> v.s # <<>>
    [] v.t = "number" -> v.n # 0
    [] OTHER -> FALSE

\* v || d
OrElse(v, d) == IF Truthy(v) THEN v ELSE d

\* v ?? d
Coalesce(v, d) == IF v.t = "undefined" THEN d ELSE v

(* ------------------------------------------------------------------ text *)
IsSpace(c) == c = " "

RECURSIVE TrimStart(_)
TrimStart(s) == IF s # <<>> /\ IsSpace(Head(s)) THEN TrimStart(Tail(s)) ELSE s

RECURSIVE TrimEnd(_)
TrimEnd(s) ==
  IF s # <<>> /\ IsSpace(s[Len(s)]) THEN TrimEnd(SubSeq(s, 1, Len(s) - 1)) ELSE s

\* String.prototype.trim
Trim(s) == TrimEnd(TrimStart(s))

LowerChar(c) ==
  CASE c = "A" -> "a"
    [] c = "B" -> "b"
    [] c = "M" -> "m"
    [] c = "T" -> "t"
    [] c = "Z" -> "z"
    [] OTHER -> c

\* String.prototype.toLowerCase
ToLowerCase(s) == [i \in 1..Len(s) |-> LowerChar(s[i])]

\* String.prototype.includes
Includes(hay, needle) ==
  \E i \in 0..(Len(hay) - Len(needle)) : SubSeq(hay, i + 1, i + Len(needle)) = needle

\* String.prototype.replaceAll(ch, rep), ch one character
RECURSIVE ReplaceAll(_, _, _)
ReplaceAll(s, ch, rep) ==
  IF s = <<>> THEN <<>>
  ELSE (IF Head(s) = ch THEN rep ELSE <<Head(s)>>) \o ReplaceAll(Tail(s), ch, rep)

Amp == <<"&", "a", "m", "p", ";">>
Lt == <<"&", "l", "t", ";">>
Gt == <<"&", "g", "t", ";">>
Quot == <<"&", "q", "u", "o", "t", ";">>
Apos039 == <<"&", "#", "0", "3", "9", ";">>
Apos39 == <<"&", "#", "3", "9", ";">>

\* server.js escapeHtml: five replaceAll passes over String(value ?? ""), & first
escapeHtml(value) ==
  LET s0 == JsString(Coalesce(value, Str(<<>>)))
      s1 == ReplaceAll(s0, "&", Amp)
      s2 == ReplaceAll(s1, "<", Lt)
      s3 == ReplaceAll(s2, ">", Gt)
      s4 == ReplaceAll(s3, "\"", Quot)
  IN  ReplaceAll(s4, "'", Apos039)

\* part_000 escape: one regex pass, each of & < > " ' mapped through the table
EscapeChar(c) ==
  CASE c = "&" -> Amp
    [] c = "<" -> Lt
    [] c = ">" -> Gt
    [] c = "\"" -> Quot
    [] c = "'" -> Apos39
    [] OTHER -> <<c>>

RECURSIVE EscapeSeq(_)
EscapeSeq(s) == IF s = <<>> THEN <<>> ELSE EscapeChar(Head(s)) \o EscapeSeq(Tail(s))

escape(str) == EscapeSeq(JsString(str))


(* ------------------------------------------------------------ spreadsheet *)
\* Sequences over S of length at most n
RECURSIVE SeqsUpTo(_, _)
SeqsUpTo(S, n) ==
  IF n = 0 THEN {<<>>}
  ELSE LET shorter == SeqsUpTo(S, n - 1)
       IN  shorter \cup {Append(q, x) : q \in {r \in shorter : Len(r) = n - 1}, x \in S}

Monday == <<"M", "o", "n", "d", "a", "y">>
Tuesday == <<"T", "u", "e", "s", "d", "a", "y">>
Wednesday == <<"W", "e", "d", "n", "e", "s", "d", "a", "y">>
Thursday == <<"T", "h", "u", "r", "s", "d", "a", "y">>
Friday == <<"F", "r", "i", "d", "a", "y">>
Saturday == <<"S", "a", "t", "u", "r", "d", "a", "y">>
Sunday == <<"S", "u", "n", "d", "a", "y">>
Unknown == <<"U", "n", "k", "n", "o", "w", "n">>

\* Data rows a sheet may hold below its header row; a row is its cells in
\* column order (Name, Day, Time, Activity, Description, Location), Undef an
\* empty cell, a short row one whose trailing cells are empty.
RowTue == <<Str(<<"a">>), Str(Tuesday), Num(9), Str(<<"<">>)>>
RowMon == <<Str(<<" ", "A">>), Str(Monday), Num(0), Undef, Str(<<"&">>), Str(<<"b", " ">>)>>
RowMon2 == <<Str(<<"a", "a">>), Str(Monday), Str(<<"a", " ">>)>>
RowNoDay == <<Str(<<"A">>), Undef, Undef, Str(<<"x">>)>>
RowBlank == <<>>

\* The sheets that are enumerated, each the data rows below the header row
Sheets ==
  { <<>>, <<RowTue>>, <<RowBlank, RowNoDay>>, <<RowTue, RowMon>>, <<RowMon, RowMon2>>,
    <<RowNoDay, RowMon>>, <<RowTue, RowMon, RowMon2>>, <<RowMon, RowNoDay, RowTue>>,
    <<RowTue, RowBlank, RowMon>> }

\* The header row of every enumerated sheet
HeaderRow == <<"Name", "Day", "Time", "Activity", "Description", "Location">>

Cell(r, i) == IF i <= Len(r) THEN r[i] ELSE Undef

\* sheet_to_json(sheet, {header: 1, defval: ""}): one array per sheet row, the
\* header row first, empty cells filled with ""
SheetRowsA(rows) ==
  <<[i \in 1..Len(HeaderRow) |-> Str(<<>>)]>>
    \o [k \in 1..Len(rows) |->
          [i \in 1..Len(HeaderRow) |-> Coalesce(Cell(rows[k], i), Str(<<>>))]]

\* part_000 lines 68-74: String(r[i] || "").trim() for the five columns
FieldA(r, i) == Str(Trim(JsString(OrElse(r[i], Str(<<>>)))))

RowA(r) ==
  [Name |-> FieldA(r, 1), Day |-> FieldA(r, 2), Time |-> FieldA(r, 3),
   Activity |-> FieldA(r, 4), Description |-> FieldA(r, 5), Location |-> Undef]

\* ParseA with the header row kept as a data row (rows.slice(0))
ParseA_KeepsHeader(rows) ==
  LET all == SheetRowsA(rows)
  IN  IF Len(all) <= 1 THEN [data |-> <<>>, stamped |-> FALSE]
      ELSE [data |-> [k \in 1..Len(all) |-> RowA(all[k])], stamped |-> TRUE]

\* part_000 lines 59-74: the table and whether line 76 (lastLoadTime) is reached
ParseA(rows) ==
  LET all == SheetRowsA(rows)
  IN  IF Len(all) <= 1 THEN [data |-> <<>>, stamped |-> FALSE]
      ELSE [data |-> [k \in 1..(Len(all) - 1) |-> RowA(all[k + 1])], stamped |-> TRUE]

HeaderIndex(f) == CHOOSE i \in 1..Len(HeaderRow) : HeaderRow[i] = f

IsBlankRow(r) == \A i \in 1..Len(r) : r[i] = Undef

\* one object of sheet_to_json(sheet): the header cell names the key, an empty
\* cell leaves the key out, the value is the raw cell
RowB(r) ==
  [Name |-> Cell(r, HeaderIndex("Name")), Day |-> Cell(r, HeaderIndex("Day")),
   Time |-> Cell(r, HeaderIndex("Time")), Activity |-> Cell(r, HeaderIndex("Activity")),
   Description |-> Cell(r, HeaderIndex("Description")),
   Location |-> Cell(r, HeaderIndex("Location"))]

\* server.js line 58: sheet_to_json(sheet) skips blank rows
ParseB(rows) ==
  LET kept == SelectSeq(rows, LAMBDA r : ~IsBlankRow(r))
  IN  [k \in 1..Len(kept) |-> RowB(kept[k])]


(* ------------------------------------------------------------------ state *)
VARIABLES
  variant,       \* "A": part_000 (strict, upload); "B": server.js (permissive)
  concurrent,    \* whether a request may be received while another is awaiting
  file,          \* uploads/schedule.xlsx: [kind, rows, mtime]
  now,           \* the wall clock
  scheduleData,  \* the in-memory table
  lastLoadTime,  \* part_000 line 46, NoTime for null
  get,           \* the GET /schedule handler of part_000 between its awaits
  up,            \* the POST /admin/upload request of part_000 between its awaits
  resp,          \* the response sent by the latest step, NoResp when it sent none
  loadEv,        \* the file loadSchedule read in the latest step, if it ran
  everPresent    \* whether schedule.xlsx has existed since the process started

vars ==
  <<variant, concurrent, file, now, scheduleData, lastLoadTime, get, up, resp, loadEv,
    everPresent>>

NoTime == -1

\* limits.fileSize of part_000 line 30, in MiB
FileSizeLimit == 10

\* part_000 lines 32-35
allowed ==
  { "application/vnd.openxmlformats-officedocument.spreadsheetml.sheet",
    "application/vnd.ms-excel" }

MimeTypes == allowed \cup {"text/csv"}

\* upload sizes in MiB, one under and one over the limit
UploadSizes == {1, FileSizeLimit + 1}

Alphabet == {"a", "A", " ", "<"}

\* what a request or an administrator may supply; the pools are kept small
\* where requests overlap
QueryNames == IF concurrent THEN {<<"a">>} ELSE SeqsUpTo(Alphabet, MaxNameLen)

Workbooks ==
  IF concurrent
    THEN { <<<<Str(<<"a">>), Str(Monday)>>>>,
           <<<<Str(<<"a">>), Str(Tuesday)>>, <<Str(<<"a">>), Str(Monday)>>>> }
    ELSE {w \in Sheets : Len(w) <= MaxRows}

Missing == [kind |-> "missing", rows |-> <<>>, mtime |-> 0]

\* a complete file an administrator or an upload may put on disk
Contents == [kind : {"xlsx"}, rows : Workbooks] \cup {[kind |-> "corrupt", rows |-> <<>>]}

\* a request without a file field
NoUpload ==
  [hasFile |-> FALSE, mimetype |-> "", size |-> 0, c |-> [kind |-> "corrupt", rows |-> <<>>]]

\* the multipart requests POST /admin/upload may receive: without a file field,
\* or with one of a declared type, a size and a content
UploadRequests ==
  {NoUpload}
    \cup [hasFile : {TRUE}, mimetype : MimeTypes, size : UploadSizes, c : Contents]

\* XLSX.readFile succeeds only on a complete spreadsheet file
Readable(f) == f.kind = "xlsx"

NoLoad == [called |-> FALSE, kind |-> "missing", rows |-> <<>>, threw |-> FALSE]

LoadOf(f, threw) == [called |-> TRUE, kind |-> f.kind, rows |-> f.rows, threw |-> threw]

GetIdle == [pc |-> "idle", query |-> <<>>, loads |-> 0, over |-> {}]

UpIdle == [pc |-> "idle", req |-> NoUpload, over |-> {}]

Seg(lit, dyn) == [lit |-> lit, dyn |-> dyn]

NoResp ==
  [kind |-> "none", status |-> 0, query |-> <<>>, body |-> <<>>, matches |-> <<>>,
   heading |-> <<>>, rows |-> <<>>, groups |-> <<>>, count |-> 0, entries |-> 0,
   loads |-> 0, over |-> {}, error |-> "", req |-> NoUpload]

(* ------------------------------------------------------------ loadSchedule *)
\* loadSchedule with a catch block that leaves scheduleData alone
loadScheduleA_KeepsOnError(f, t, old, last) ==
  IF f.kind = "missing" THEN [data |-> <<>>, last |-> last, threw |-> FALSE]
  ELSE IF ~Readable(f) THEN [data |-> old, last |-> last, threw |-> FALSE]
  ELSE LET p == ParseA(f.rows)
       IN  [data |-> p.data, last |-> IF p.stamped THEN t ELSE last, threw |-> FALSE]

\* part_000 lines 49-82: the table, the timestamp and whether an error left
\* loadSchedule, after it has run on file f at time t with the table old
loadScheduleA(f, t, old, last) ==
  IF f.kind = "missing" THEN [data |-> <<>>, last |-> last, threw |-> FALSE]
  ELSE IF ~Readable(f) THEN [data |-> <<>>, last |-> last, threw |-> FALSE]
  ELSE LET p == ParseA(f.rows)
       IN  [data |-> p.data, last |-> IF p.stamped THEN t ELSE last, threw |-> FALSE]

\* server.js lines 47-64
loadScheduleB(f, old) ==
  IF f.kind = "missing" THEN [data |-> <<>>, threw |-> FALSE]
  ELSE IF ~Readable(f) THEN [data |-> <<>>, threw |-> FALSE]
  ELSE [data |-> ParseB(f.rows), threw |-> FALSE]


(* ------------------------------------------------- GET /schedule, server.js *)
dayOrder == <<Monday, Tuesday, Wednesday, Thursday, Friday, Saturday, Sunday>>

\* Array.prototype.indexOf
IndexOf(arr, x) ==
  IF \E i \in 1..Len(arr) : arr[i] = x
    THEN (CHOOSE i \in 1..Len(arr) : arr[i] = x /\ \A j \in 1..(i - 1) : arr[j] # x) - 1
    ELSE -1

\* server.js line 112: String(req.query.name || "").trim().toLowerCase()
nameQuery(q) == ToLowerCase(Trim(q))

\* server.js line 118
MatchB(row, nq) == Includes(ToLowerCase(JsString(OrElse(row.Name, Str(<<>>)))), nq)

\* server.js lines 114-119
matchingRows(table, q) ==
  IF nameQuery(q) # <<>> THEN SelectSeq(table, LAMBDA row : MatchB(row, nameQuery(q)))
  ELSE table

\* server.js line 130: row.Day || "Unknown", as the property key it becomes
DayKey(row) == JsString(OrElse(row.Day, Str(Unknown)))

\* server.js lines 128-133, Object.keys(days): the keys in the order of their
\* first row (no enumerated label is an array index)
RECURSIVE DayKeys(_)
DayKeys(rows) ==
  IF rows = <<>> THEN <<>>
  ELSE LET before == DayKeys(SubSeq(rows, 1, Len(rows) - 1))
           day == DayKey(rows[Len(rows)])
       IN  IF \E i \in 1..Len(before) : before[i] = day THEN before
           ELSE Append(before, day)

\* Array.prototype.sort (stable) under (a, b) => indexOf(a) - indexOf(b)
RECURSIVE SortFrom(_, _)
SortFrom(keys, k) ==
  IF k > Len(dayOrder) - 1 THEN <<>>
  ELSE SelectSeq(keys, LAMBDA d : IndexOf(dayOrder, d) = k) \o SortFrom(keys, k + 1)

\* sortedDays without the sort
sortedDays_Unsorted(rows) == DayKeys(rows)

\* server.js lines 136-139
sortedDays(rows) == SortFrom(DayKeys(rows), -1)

\* server.js lines 131-132: days[day], as positions in matchingRows
DayRows(rows, day) ==
  SelectSeq([i \in 1..Len(rows) |-> i], LAMBDA i : DayKey(rows[i]) = day)

\* server.js lines 155-160
CellsB(row) ==
  << escapeHtml(OrElse(row.Time, Str(<<>>))), escapeHtml(OrElse(row.Activity, Str(<<>>))),
     escapeHtml(OrElse(row.Description, Str(<<>>))),
     escapeHtml(OrElse(row.Location, Str(<<>>))) >>

\* server.js lines 149-164
GroupsB(rows) ==
  LET sorted == sortedDays(rows)
  IN  [g \in 1..Len(sorted) |->
         LET idx == DayRows(rows, sorted[g])
         IN  [day |-> sorted[g], label |-> escapeHtml(Str(sorted[g])), idx |-> idx,
              cells |-> [k \in 1..Len(idx) |-> CellsB(rows[idx[k]])]]]

\* server.js lines 111-173: the response to ?name=q over table
RespondB(table, q) ==
  LET m == matchingRows(table, q)
  IN  IF nameQuery(q) # <<>> /\ Len(m) = 0
        THEN [NoResp EXCEPT !.kind = "get", !.status = 404, !.query = q,
                !.body = << Seg("<span class=\"error\">No schedule found for <strong>",
                                escapeHtml(Str(q))),
                            Seg("</strong>.</span>", <<>>) >>]
        ELSE [NoResp EXCEPT !.kind = "get", !.status = 200, !.query = q, !.matches = m,
                !.heading = IF nameQuery(q) # <<>> THEN escapeHtml(Str(q)) ELSE <<>>,
                !.count = IF nameQuery(q) # <<>> THEN Len(m) ELSE 0,
                !.groups = GroupsB(m)]

(* -------------------------------------------------- GET /schedule, part_000 *)
\* part_000 line 106
name(q) == Trim(q)

\* part_000 line 128
lowerName(q) == ToLowerCase(name(q))

\* matches with the row's Name compared as it is written
matches_CaseSensitive(table, q) ==
  SelectSeq(table, LAMBDA row : JsString(row.Name) = lowerName(q))

\* part_000 line 129
matches(table, q) ==
  SelectSeq(table, LAMBDA row : ToLowerCase(JsString(row.Name)) = lowerName(q))

\* part_000 lines 138-145
CellsA(r) == <<escape(r.Day), escape(r.Time), escape(r.Activity), escape(r.Description)>>

\* part_000 lines 128-168: the response once the table is known to be non-empty
RespondA(table, q) ==
  LET m == matches(table, q)
  IN  IF Len(m) = 0
        THEN [NoResp EXCEPT !.kind = "get", !.status = 404, !.query = q,
                !.body = <<Seg("No schedule found for \"", name(q)), Seg("\".", <<>>)>>]
        ELSE [NoResp EXCEPT !.kind = "get", !.status = 200, !.query = q, !.matches = m,
                !.heading = escape(m[1].Name), !.count = Len(m),
                !.rows = [k \in 1..Len(m) |-> CellsA(m[k])]]

\* part_000 line 124
NoDataA(q) ==
  [NoResp EXCEPT !.kind = "get", !.status = 404, !.query = q,
     !.body = << Seg("No schedule data available yet. Please upload an Excel file first.",
                     <<>>) >>]

\* part_000 line 109
MissingNameA(q) ==
  [NoResp EXCEPT !.kind = "get", !.status = 400, !.query = q,
     !.body = <<Seg("Missing or empty ?name= parameter", <<>>)>>]


(* ------------------------------------------------- the handlers of part_000 *)
\* The process between two steps: what a handler reads and leaves behind
Machine ==
  [get |-> get, up |-> up, file |-> file, data |-> scheduleData, last |-> lastLoadTime,
   resp |-> NoResp, ev |-> NoLoad, ever |-> everPresent]

Becomes(m) ==
  /\ get' = m.get
  /\ up' = m.up
  /\ file' = m.file
  /\ scheduleData' = m.data
  /\ lastLoadTime' = m.last
  /\ resp' = m.resp
  /\ loadEv' = m.ev
  /\ everPresent' = m.ever

\* part_000 lines 49-82 run on the machine: loadSchedule from its fs.stat on
Loaded(m, clk) ==
  LET r == loadScheduleA(m.file, clk, m.data, m.last)
  IN  [m EXCEPT !.data = r.data, !.last = r.last, !.ev = LoadOf(m.file, r.threw)]

\* GetReceive testing the name before it is trimmed
GetReceive_Untrimmed(m, q) ==
  IF q = <<>> THEN [m EXCEPT !.resp = MissingNameA(q)]
  ELSE [m EXCEPT !.get = [pc |-> "stat", query |-> q, loads |-> 0, over |-> m.up.over]]

\* part_000 lines 105-114: up to the await of fs.stat
GetReceive(m, q) ==
  IF name(q) = <<>> THEN [m EXCEPT !.resp = MissingNameA(q)]
  ELSE [m EXCEPT !.get = [pc |-> "stat", query |-> q, loads |-> 0, over |-> m.up.over]]

\* Line121 answering from the table as it is, without the reload of an empty one
Line121_NoReload(m) ==
  [m EXCEPT !.get = GetIdle,
            !.resp = [(IF Len(m.data) = 0 THEN NoDataA(m.get.query)
                       ELSE RespondA(m.data, m.get.query))
                        EXCEPT !.loads = m.get.loads, !.over = m.get.over]]

\* part_000 lines 121-133: what follows the hot-reload block: a second
\* loadSchedule() up to its await, or the answer
Line121(m) ==
  IF Len(m.data) = 0 THEN [m EXCEPT !.get.pc = "load", !.get.loads = @ + 1]
  ELSE [m EXCEPT !.get = GetIdle,
                 !.resp = [RespondA(m.data, m.get.query) EXCEPT !.loads = m.get.loads,
                                                                !.over = m.get.over]]

\* part_000 lines 114-133: the handler from one await to the next.
\*   "stat"  : fs.stat has settled (a missing file throws into the empty catch)
\*   "reload": the hot reload's loadSchedule resumes after its fs.stat
\*   "load"  : the empty-table loadSchedule resumes after its fs.stat
GetResume(m, clk) ==
  CASE m.get.pc = "stat" ->
         IF m.file.kind # "missing" /\ m.last # NoTime /\ m.file.mtime > m.last
           THEN [m EXCEPT !.get.pc = "reload", !.get.loads = @ + 1]
           ELSE Line121(m)
    [] m.get.pc = "reload" -> Line121(Loaded(m, clk))
    [] m.get.pc = "load" ->
         LET l == Loaded(m, clk)
         IN  [l EXCEPT !.get = GetIdle,
                       !.resp = [(IF Len(l.data) = 0 THEN NoDataA(m.get.query)
                                  ELSE RespondA(l.data, m.get.query))
                                   EXCEPT !.loads = m.get.loads, !.over = m.get.over]]
    [] OTHER -> m

RECURSIVE GetRun(_, _)
GetRun(m, clk) == IF m.get.pc = "idle" THEN m ELSE GetRun(GetResume(m, clk), clk)

UploadError(u, msg) ==
  [NoResp EXCEPT !.kind = "upload", !.status = 400, !.error = msg, !.req = u]

\* a fileFilter that lets every type through
fileFilter_AcceptsAll(mimetype) == TRUE

\* part_000 lines 31-41
fileFilter(mimetype) == mimetype \in allowed

\* the tables a request overlapping an upload of c may rightly filter over: the
\* table and the load of the file as they were, and the load of the new file
Around(m, c, clk) ==
  { m.data, loadScheduleA(m.file, clk, m.data, m.last).data,
    loadScheduleA([kind |-> c.kind, rows |-> c.rows, mtime |-> clk], clk, m.data, m.last).data }

\* part_000 lines 25-42, 87-90, 99-102: multer takes the request; with no file
\* field the handler answers at once, a refused type goes to the error handler,
\* otherwise diskStorage opens uploads/schedule.xlsx for writing
UpReceive(m, u, clk) ==
  IF ~u.hasFile THEN [m EXCEPT !.resp = UploadError(u, "No file uploaded.")]
  ELSE IF ~fileFilter(u.mimetype)
    THEN [m EXCEPT !.resp = UploadError(u, "Only .xlsx and .xls files are allowed!")]
  ELSE LET over == IF u.size <= FileSizeLimit THEN Around(m, u.c, clk) ELSE {}
       IN  [m EXCEPT !.file = [kind |-> "partial", rows |-> u.c.rows, mtime |-> clk],
                     !.ever = TRUE,
                     !.up = [pc |-> "writing", req |-> u, over |-> over],
                     !.get = IF m.get.pc = "idle" THEN m.get
                             ELSE [m.get EXCEPT !.over = @ \cup over]]

\* part_000 lines 30, 87-98: the request from one await to the next.
\*   "writing": the write stream ends; over the size limit multer removes the
\*              file and hands LIMIT_FILE_SIZE to the error handler, otherwise
\*              the handler runs loadSchedule() up to its await
\*   "load"   : loadSchedule resumes after its fs.stat, then res.json
UpResume(m, clk) ==
  CASE m.up.pc = "writing" ->
         IF m.up.req.size > FileSizeLimit
           THEN [m EXCEPT !.file = Missing, !.resp = UploadError(m.up.req, "File too large"),
                          !.up = UpIdle]
           ELSE [m EXCEPT !.file = [kind |-> m.up.req.c.kind, rows |-> m.up.req.c.rows,
                                    mtime |-> clk],
                          !.up.pc = "load"]
    [] m.up.pc = "load" ->
         LET l == Loaded(m, clk)
         IN  [l EXCEPT !.up = UpIdle,
                       !.resp = [NoResp EXCEPT !.kind = "upload", !.status = 200,
                                   !.entries = Len(l.data), !.over = m.up.over,
                                   !.req = m.up.req]]
    [] OTHER -> m

RECURSIVE UpRun(_, _)
UpRun(m, clk) == IF m.up.pc = "idle" THEN m ELSE UpRun(UpResume(m, clk), clk)

(* ---------------------------------------------------------------- actions *)
\* no request is between two awaits
Idle == get.pc = "idle" /\ up.pc = "idle"

\* the latest step's response and load have been taken note of
Settled == resp = NoResp /\ ~loadEv.called

\* res.send / res.json have handed the response over; the process itself is
\* unchanged
Settle ==
  /\ ~Settled
  /\ resp' = NoResp
  /\ loadEv' = NoLoad
  /\ UNCHANGED <<variant, concurrent, file, now, scheduleData, lastLoadTime, get, up,
                 everPresent>>

\* server.js lines 111-173: the handler has no await and runs in one piece
GetB(q) ==
  /\ Settled
  /\ variant = "B"
  /\ resp' = RespondB(scheduleData, q)
  /\ loadEv' = NoLoad
  /\ UNCHANGED <<variant, concurrent, file, now, scheduleData, lastLoadTime, get, up,
                 everPresent>>

\* part_000 lines 105-169, one request at a time: the handler to its response
GetA(q) ==
  /\ Settled
  /\ variant = "A"
  /\ Becomes(GetRun(GetReceive(Machine, q), now))
  /\ UNCHANGED <<variant, concurrent, now>>

\* part_000 lines 87-102, one request at a time: the request to its response
UploadA(u) ==
  /\ Settled
  /\ variant = "A"
  /\ Becomes(UpRun(UpReceive(Machine, u, now), now))
  /\ UNCHANGED <<variant, concurrent, now>>

\* the same handlers where requests overlap: one action per stretch between awaits
GetA_Receive(q) ==
  /\ Settled
  /\ variant = "A"
  /\ get.pc = "idle"
  /\ Becomes(GetReceive(Machine, q))
  /\ UNCHANGED <<variant, concurrent, now>>

GetA_Resume ==
  /\ Settled
  /\ get.pc # "idle"
  /\ Becomes(GetResume(Machine, now))
  /\ UNCHANGED <<variant, concurrent, now>>

UpA_Receive(u) ==
  /\ Settled
  /\ variant = "A"
  /\ up.pc = "idle"
  /\ Becomes(UpReceive(Machine, u, now))
  /\ UNCHANGED <<variant, concurrent, now>>

UpA_Resume ==
  /\ Settled
  /\ up.pc # "idle"
  /\ Becomes(UpResume(Machine, now))
  /\ UNCHANGED <<variant, concurrent, now>>

\* the process starts: part_000 lines 45-46; server.js lines 33 and 67
Start ==
  /\ Settled
  /\ Idle
  /\ IF variant = "A"
       THEN /\ scheduleData' = <<>>
            /\ loadEv' = NoLoad
       ELSE /\ scheduleData' = loadScheduleB(file, <<>>).data
            /\ loadEv' = LoadOf(file, loadScheduleB(file, <<>>).threw)
  /\ lastLoadTime' = NoTime
  /\ everPresent' = (file.kind # "missing")
  /\ resp' = NoResp
  /\ UNCHANGED <<variant, concurrent, file, now, get, up>>

\* an administrator replaces uploads/schedule.xlsx (server.js line 180)
DiskReplace(c) ==
  /\ Settled
  /\ Idle
  /\ file' = [kind |-> c.kind, rows |-> c.rows, mtime |-> now]
  /\ everPresent' = TRUE
  /\ resp' = NoResp
  /\ loadEv' = NoLoad
  /\ UNCHANGED <<variant, concurrent, now, scheduleData, lastLoadTime, get, up>>

\* an administrator removes uploads/schedule.xlsx
DiskRemove ==
  /\ Settled
  /\ Idle
  /\ file.kind # "missing"
  /\ file' = Missing
  /\ resp' = NoResp
  /\ loadEv' = NoLoad
  /\ UNCHANGED <<variant, concurrent, now, scheduleData, lastLoadTime, get, up, everPresent>>

\* time passes; only part_000 reads the clock (new Date(), stats.mtime)
Tick ==
  /\ Settled
  /\ variant = "A"
  /\ now < MaxClock
  /\ now' = now + 1
  /\ resp' = NoResp
  /\ loadEv' = NoLoad
  /\ UNCHANGED <<variant, concurrent, file, scheduleData, lastLoadTime, get, up, everPresent>>

\* the state once the script has run to its end, on whatever the disk holds
InitWith(c) ==
  /\ concurrent = c
  /\ variant \in {"A", "B"}
  /\ now = 0
  /\ file \in {Missing} \cup {[kind |-> x.kind, rows |-> x.rows, mtime |-> 0] : x \in Contents}
  /\ scheduleData = IF variant = "A" THEN <<>> ELSE loadScheduleB(file, <<>>).data
  /\ lastLoadTime = NoTime
  /\ get = GetIdle
  /\ up = UpIdle
  /\ resp = NoResp
  /\ loadEv = IF variant = "A" THEN NoLoad ELSE LoadOf(file, loadScheduleB(file, <<>>).threw)
  /\ everPresent = (file.kind # "missing")

Init == InitWith(FALSE)

InitConc == InitWith(TRUE)

Environment ==
  \/ Settle
  \/ Start
  \/ \E c \in Contents : DiskReplace(c)
  \/ DiskRemove
  \/ Tick

Next ==
  \/ \E q \in QueryNames : GetB(q)
  \/ \E q \in QueryNames : GetA(q)
  \/ \E u \in UploadRequests : UploadA(u)
  \/ Environment

NextConc ==
  \/ \E q \in QueryNames : GetB(q)
  \/ \E q \in QueryNames : GetA_Receive(q)
  \/ GetA_Resume
  \/ \E u \in UploadRequests : UpA_Receive(u)
  \/ UpA_Resume
  \/ Environment

\* requests handled one at a time
Spec == Init /\ [][Next]_vars

\* requests overlapping at their awaits
SpecConc == InitConc /\ [][NextConc]_vars
(* ------------------------------------------------- what the claims refer to *)
\* the text of a cell or field: empty for an empty cell, the digits of a number
CellText(v) ==
  CASE v.t = "string" -> v.s
    [] v.t = "number" -> Digits(v.n)
    [] OTHER -> <<>>

Entities == {Amp, Lt, Gt, Quot, Apos039, Apos39}

EntityChar(e) ==
  CASE e = Amp -> "&"
    [] e = Lt -> "<"
    [] e = Gt -> ">"
    [] e = Quot -> "\""
    [] OTHER -> "'"

HasPrefix(s, pre) == Len(s) >= Len(pre) /\ SubSeq(s, 1, Len(pre)) = pre

\* the text a browser shows for escaped text
RECURSIVE Unescape(_)
Unescape(s) ==
  IF s = <<>> THEN <<>>
  ELSE IF \E e \in Entities : HasPrefix(s, e)
    THEN LET e == CHOOSE x \in Entities : HasPrefix(s, x)
         IN  <<EntityChar(e)>> \o Unescape(SubSeq(s, Len(e) + 1, Len(s)))
    ELSE <<Head(s)>> \o Unescape(Tail(s))

\* no <, > or & other than the & that opens an entity
RECURSIVE NoRawMarkup(_)
NoRawMarkup(s) ==
  IF s = <<>> THEN TRUE
  ELSE IF \E e \in Entities : HasPrefix(s, e)
    THEN LET e == CHOOSE x \in Entities : HasPrefix(s, x)
         IN  NoRawMarkup(SubSeq(s, Len(e) + 1, Len(s)))
    ELSE Head(s) \notin {"<", ">", "&"} /\ NoRawMarkup(Tail(s))

CasePairs == {{"a", "A"}, {"b", "B"}, {"x", "X"}}

SameLetter(c, d) == c = d \/ {c, d} \in CasePairs

EqualsIgnoringCase(a, b) ==
  Len(a) = Len(b) /\ \A i \in 1..Len(a) : SameLetter(a[i], b[i])

ContainsIgnoringCase(hay, needle) ==
  \E i \in 0..(Len(hay) - Len(needle)) :
    EqualsIgnoringCase(SubSeq(hay, i + 1, i + Len(needle)), needle)

\* the matching policy of each variant, on the trimmed query
NameMatches(row, q) ==
  IF variant = "A" THEN EqualsIgnoringCase(CellText(row.Name), Trim(q))
  ELSE ContainsIgnoringCase(CellText(row.Name), Trim(q))

Matching(table, q) == SelectSeq(table, LAMBDA row : NameMatches(row, q))

Fields == {"Name", "Day", "Time", "Activity", "Description", "Location"}

\* the sheet rows a load turns into table rows
SourceRows(rows) ==
  IF variant = "A" THEN rows ELSE SelectSeq(rows, LAMBDA r : ~IsBlankRow(r))

\* every position of rows is rendered once by groups, with the cells of its row
RendersAll(groups, rows) ==
  \A k \in 1..Len(rows) :
    Cardinality({<<g, j>> \in (1..Len(groups)) \X (1..Len(rows)) :
                   /\ j <= Len(groups[g].idx)
                   /\ groups[g].idx[j] = k
                   /\ groups[g].cells[j] = CellsB(rows[k])}) = 1

(* ----------------------------------------------------------------- claims *)
\* C1: a non-empty name that matches no row is answered 404, and the body holds
\* the query text HTML-escaped, with no raw <, > or & from it.
C1_NotFoundIsEscaped ==
  (resp.kind = "get" /\ Trim(resp.query) # <<>> /\ Matching(scheduleData, resp.query) = <<>>)
    => /\ resp.status = 404
       /\ \E i \in 1..Len(resp.body) :
            Unescape(resp.body[i].dyn) \in {resp.query, Trim(resp.query)}
       /\ \A i \in 1..Len(resp.body) : NoRawMarkup(resp.body[i].dyn)

\* C2: a loadSchedule that finds the file missing or unreadable leaves the table
\* empty, one that parses it leaves exactly the rows of that file, and no error
\* leaves loadSchedule.
C2_LoadReplacesOrEmpties ==
  loadEv.called =>
    /\ ~loadEv.threw
    /\ scheduleData =
         IF loadEv.kind # "xlsx" THEN <<>>
         ELSE IF variant = "A" THEN ParseA(loadEv.rows).data
         ELSE ParseB(loadEv.rows)

C2_Witness ==
  /\ variant = "A"
  /\ loadEv.called
  /\ loadEv.kind = "corrupt"
  /\ lastLoadTime # NoTime

\* C3: an accepted upload of a sheet with N data rows leaves N entries in source
\* row order, and the success response, sent after that, reports entries = N.
C3_UploadRoundTrip ==
  (resp.kind = "upload" /\ resp.status = 200 /\ resp.req.c.kind = "xlsx")
    => LET sheet == resp.req.c.rows
       IN  /\ Len(scheduleData) = Len(sheet)
           /\ resp.entries = Len(sheet)
           /\ \A k \in 1..Len(sheet) :
                /\ scheduleData[k].Name.s = Trim(CellText(Cell(sheet[k], 1)))
                /\ scheduleData[k].Day.s = Trim(CellText(Cell(sheet[k], 2)))

C3_Witness ==
  /\ resp.kind = "upload"
  /\ resp.status = 200
  /\ resp.entries = 2
  /\ Len(scheduleData) = 2

\* C4: for a non-empty name the rows rendered are exactly the rows of the current
\* table whose Name matches the trimmed query without regard to case (equal in
\* variant A, containing it in variant B), none omitted and none added, the
\* count shown is their number, and the answer is 404 exactly when there is none.
C4_RenderedAreTheMatches ==
  (resp.kind = "get" /\ Trim(resp.query) # <<>>)
    => LET want == Matching(scheduleData, resp.query)
       IN  /\ resp.status \in {200, 404}
           /\ resp.status = 404 <=> want = <<>>
           /\ resp.matches = want
           /\ resp.status = 200 =>
                /\ resp.count = Len(want)
                /\ IF variant = "A"
                     THEN resp.rows = [k \in 1..Len(want) |-> CellsA(want[k])]
                     ELSE RendersAll(resp.groups, want)

C4_Witness ==
  /\ resp.kind = "get"
  /\ resp.status = 200
  /\ Len(scheduleData) = 2
  /\ Len(resp.matches) = 1
  /\ resp.matches[1].Name.s # Trim(resp.query)

\* C5 as claimed: with the file missing since startup every GET that passes name
\* validation (in variant B any name, the empty one included) is answered 404,
\* after one reload attempt.
C5_MissingFileAlways404 ==
  (resp.kind = "get" /\ ~everPresent /\ (variant = "B" \/ Trim(resp.query) # <<>>))
    => /\ scheduleData = <<>>
       /\ resp.status = 404
       /\ resp.loads = 1

\* C5 as amended: with the file missing since startup the table is empty and
\* every GET with a non-empty name is answered 404, in variant A after exactly
\* one reload attempt, in variant B with none; variant B answers an empty name
\* with 200 and an empty schedule.
C5_MissingFileNotFound ==
  (resp.kind = "get" /\ ~everPresent)
    => /\ scheduleData = <<>>
       /\ Trim(resp.query) # <<>> =>
            /\ resp.status = 404
            /\ resp.loads = IF variant = "A" THEN 1 ELSE 0
       /\ (Trim(resp.query) = <<>> /\ variant = "B") =>
            /\ resp.status = 200
            /\ resp.groups = <<>>
            /\ resp.loads = 0

C5_Witness ==
  /\ variant = "A"
  /\ resp.kind = "get"
  /\ ~everPresent
  /\ resp.status = 404
  /\ resp.loads = 1
  /\ loadEv.called
  /\ loadEv.kind = "missing"

\* C6: an empty, blank or absent name is answered by variant B with 200 and every
\* row of the table rendered, and by variant A with 400 before any reload, the
\* table and the last-load timestamp left as they were.
C6_EmptyName ==
  [][(resp'.kind = "get" /\ Trim(resp'.query) = <<>>)
       => IF variant = "B"
            THEN /\ resp'.status = 200
                 /\ resp'.matches = scheduleData'
                 /\ RendersAll(resp'.groups, scheduleData')
            ELSE /\ resp'.status = 400
                 /\ resp'.loads = 0
                 /\ ~loadEv'.called
                 /\ scheduleData' = scheduleData
                 /\ lastLoadTime' = lastLoadTime]_vars

C6_Witness ==
  /\ variant = "A"
  /\ resp.kind = "get"
  /\ resp.status = 400
  /\ file.kind = "xlsx"
  /\ lastLoadTime # NoTime
  /\ file.mtime > lastLoadTime
  /\ ParseA(file.rows).data # scheduleData

\* what multer or the handler refuses
Rejected(u) == ~u.hasFile \/ u.mimetype \notin allowed \/ u.size > FileSizeLimit

\* C7: every rejected upload (undeclared Excel type, over 10 MiB, no file field)
\* is answered 400 with {error: reason}, runs no ingestion and leaves the table
\* and the last-load timestamp as they were.
C7_RejectedUploadChangesNothing ==
  [][(resp'.kind = "upload" /\ (Rejected(resp'.req) \/ resp'.status # 200))
       => /\ resp'.status = 400
          /\ resp'.error # ""
          /\ ~loadEv'.called
          /\ scheduleData' = scheduleData
          /\ lastLoadTime' = lastLoadTime]_vars

C7_Witness ==
  /\ resp.kind = "upload"
  /\ resp.status = 400
  /\ resp.req.hasFile
  /\ resp.req.mimetype \in allowed
  /\ resp.req.size > FileSizeLimit
  /\ scheduleData # <<>>
  /\ lastLoadTime # NoTime

\* the weekdays in calendar order
CanonicalWeek == <<Monday, Tuesday, Wednesday, Thursday, Friday, Saturday, Sunday>>

WeekPos(d) == CHOOSE i \in 1..Len(CanonicalWeek) : CanonicalWeek[i] = d

IsWeekday(d) == \E i \in 1..Len(CanonicalWeek) : CanonicalWeek[i] = d

\* the label a row is grouped under: its Day, Unknown standing for an empty one
DayLabel(row) == IF CellText(row.Day) = <<>> THEN Unknown ELSE CellText(row.Day)

C9_FieldsAreTrimmedStrings ==
  (loadEv.called /\ loadEv.kind = "xlsx")
    => LET src == SourceRows(loadEv.rows)
       IN  \A k \in 1..Len(scheduleData) : \A f \in Fields :
             /\ scheduleData[k][f].t = "string"
             /\ k <= Len(src)
                  => scheduleData[k][f].s = Trim(CellText(Cell(src[k], HeaderIndex(f))))

\* C10: a GET that overlaps an accepted upload filters over the whole table from
\* before the upload or the whole table of the new file, never over what a read
\* of the half-written file left; and once the upload has answered, the table is
\* the parse of the uploaded file.
C10_ReplacementIsAtomic ==
  /\ (resp.kind = "get" /\ resp.status \in {200, 404} /\ resp.over # {})
       => scheduleData \in resp.over
  /\ (resp.kind = "upload" /\ resp.status = 200)
       => scheduleData =
            IF resp.req.c.kind = "xlsx" THEN ParseA(resp.req.c.rows).data ELSE <<>>
====
